---------------------------- MODULE Spec2Model ----------------------------
(***************************************************************************)
(* Sales Management System: the three read-only HTTP handlers of           *)
(* backend/src/main.py (get_filter_options, get_transactions,              *)
(* get_statistics) over the sales_transactions table of                    *)
(* backend/src/models.py.                                                  *)
(*                                                                         *)
(* Representation.                                                         *)
(*  - A Python str / SQL TEXT value is a sequence of one-character         *)
(*    strings, <<"a","b">>; the characters are those of Ascii below.       *)
(*  - A nullable value (a column that may be NULL, an Optional parameter)  *)
(*    is <<>> for NULL/None and <<v>> for the value v.                     *)
(*  - Attribute names (sort_by) and sort_order are TLA+ strings: the code  *)
(*    only looks them up or compares them for equality.                    *)
(*  - A date is <<year, month, day>>.                                      *)
(*  - Float columns (price_per_unit, total_amount, discount) hold          *)
(*    integers; floating-point rounding is not modelled.                   *)
(*  - A response is [status |-> 200, ...] or [status |-> 500] (the         *)
(*    HTTPException raised by the handler's except clause); NoResponse     *)
(*    stands for "handler not called yet".                                 *)
(***************************************************************************)
EXTENDS Integers, Sequences, FiniteSets, TLC

VARIABLES
    engine,      \* SQL dialect of the store behind get_db: "sqlite" or "postgresql"
    store,       \* rows of sales_transactions, in physical order
    req,         \* query parameters of the request (filter selection, sort, page)
    listing,     \* response of GET /api/transactions to req
    statistics,  \* response of GET /api/statistics to req
    options      \* response of GET /api/filters/options

vars == <<engine, store, req, listing, statistics, options>>

None == <<>>

Some(v) == <<v>>

Min(a, b) == IF a <= b THEN a ELSE b

Max(a, b) == IF a >= b THEN a ELSE b

(***************************************************************************)
(* Characters and Python's str operations.                                 *)
(***************************************************************************)
Digits == <<"0", "1", "2", "3", "4", "5", "6", "7", "8", "9">>

UpperCase ==
    <<"A", "B", "C", "D", "E", "F", "G", "H", "I", "J", "K", "L", "M",
      "N", "O", "P", "Q", "R", "S", "T", "U", "V", "W", "X", "Y", "Z">>

LowerCase ==
    <<"a", "b", "c", "d", "e", "f", "g", "h", "i", "j", "k", "l", "m",
      "n", "o", "p", "q", "r", "s", "t", "u", "v", "w", "x", "y", "z">>

\* The characters of the model, in code-point order.
Ascii ==
    <<" ", "\"", "%", "+", ",", "-">> \o Digits \o UpperCase \o <<"\\", "_">>
        \o LowerCase \o <<"{", "}">>

Range(s) == {s[i] : i \in DOMAIN s}

\* The list with the elements of f, a function on 1..n.
List(f) == SubSeq(f, 1, Len(f))

IndexIn(seq, c) == CHOOSE i \in DOMAIN seq : seq[i] = c

\* Position of a character in code-point order.
Ord(c) == IndexIn(Ascii, c)

Whitespace == {" "}

\* str.lower() on one character.
LowerChar(c) == IF c \in Range(UpperCase) THEN LowerCase[IndexIn(UpperCase, c)] ELSE c

\* str.lower()
Lower(s) == List([i \in DOMAIN s |-> LowerChar(s[i])])

RECURSIVE LStrip(_, _)
LStrip(s, chars) ==
    IF s /= <<>> /\ Head(s) \in chars THEN LStrip(Tail(s), chars) ELSE s

RECURSIVE RStrip(_, _)
RStrip(s, chars) ==
    IF s /= <<>> /\ s[Len(s)] \in chars
    THEN RStrip(SubSeq(s, 1, Len(s) - 1), chars)
    ELSE s

\* str.strip(chars): drop leading and trailing characters that are in chars.
Strip(s, chars) == RStrip(LStrip(s, chars), chars)

\* str.strip()
StripWs(s) == Strip(s, Whitespace)

\* sep in s, for a one-character sep.
Contains(s, sep) == \E i \in DOMAIN s : s[i] = sep

RECURSIVE SplitAcc(_, _, _, _)
SplitAcc(s, sep, cur, acc) ==
    IF s = <<>> THEN Append(acc, cur)
    ELSE IF Head(s) = sep THEN SplitAcc(Tail(s), sep, <<>>, Append(acc, cur))
    ELSE SplitAcc(Tail(s), sep, Append(cur, Head(s)), acc)

\* str.split(sep), for a one-character sep: always at least one piece.
Split(s, sep) == SplitAcc(s, sep, <<>>, <<>>)

\* Code-point comparison of two strings (Python's <, and the store's ORDER BY
\* under a binary collation).
RECURSIVE StrLess(_, _)
StrLess(a, b) ==
    IF b = <<>> THEN FALSE
    ELSE IF a = <<>> THEN TRUE
    ELSE IF Head(a) = Head(b) THEN StrLess(Tail(a), Tail(b))
    ELSE Ord(Head(a)) < Ord(Head(b))

RECURSIVE DigitsValue(_, _)
DigitsValue(s, acc) ==
    IF s = <<>> THEN acc
    ELSE DigitsValue(Tail(s), 10 * acc + (IndexIn(Digits, Head(s)) - 1))

\* Whether int(s) returns: optional surrounding whitespace, an optional sign,
\* then decimal digits that single underscores may separate.
IsIntLiteral(s) ==
    LET t == StripWs(s)
        u == IF t /= <<>> /\ Head(t) \in {"+", "-"} THEN Tail(t) ELSE t
    IN  /\ u /= <<>>
        /\ \A i \in DOMAIN u : u[i] \in Range(Digits) \cup {"_"}
        /\ u[1] /= "_"
        /\ u[Len(u)] /= "_"
        /\ \A i \in 1..(Len(u) - 1) : ~(u[i] = "_" /\ u[i + 1] = "_")

\* int(s), where IsIntLiteral(s).
ParseInt(s) ==
    LET t == StripWs(s)
        neg == t /= <<>> /\ Head(t) = "-"
        u == IF t /= <<>> /\ Head(t) \in {"+", "-"} THEN Tail(t) ELSE t
        v == DigitsValue(SelectSeq(u, LAMBDA c : c /= "_"), 0)
    IN  IF neg THEN -v ELSE v

RECURSIVE NatToStr(_)
NatToStr(n) ==
    IF n < 10 THEN <<Digits[n + 1]>>
    ELSE NatToStr(n \div 10) \o <<Digits[(n % 10) + 1]>>

\* str(n) / f"{n}" for an int.
IntToStr(n) == IF n < 0 THEN <<"-">> \o NatToStr(-n) ELSE NatToStr(n)

\* f"{n:0{width}d}" for n >= 0.
RECURSIVE ZeroPad(_, _)
ZeroPad(s, width) == IF Len(s) >= width THEN s ELSE ZeroPad(<<"0">> \o s, width)


(***************************************************************************)
(* models.py: a row of sales_transactions and its display form.            *)
(***************************************************************************)
Columns ==
    {"transaction_id", "date", "customer_id", "customer_name", "phone_number",
     "gender", "age", "customer_region", "product_category", "quantity",
     "price_per_unit", "total_amount", "discount", "payment_method", "tags"}

\* Names getattr(SalesTransaction, name, None) resolves to a truthy object
\* that is not a column and has no .asc()/.desc(): what the class body sets,
\* what the declarative base (declarative_base() of SQLAlchemy 1.4 and later:
\* metadata, registry, _sa_registry, __abstract__ = True) and the mapping add,
\* and what every Python class has from object and type.  (__doc__, __annotations__, __itemsize__,
\* __text_signature__ and __abstractmethods__ resolve to a falsy value or to
\* the default None, and are ignored like a name the class does not have.)
ClassAttributes ==
    {"to_dict", "__tablename__", "__table_args__"}
    \cup {"metadata", "registry", "_sa_registry", "__abstract__", "__table__",
          "__mapper__", "_sa_class_manager"}
    \cup {"__base__", "__bases__", "__basicsize__", "__call__", "__class__",
          "__delattr__", "__dict__", "__dictoffset__", "__dir__", "__eq__",
          "__flags__", "__format__", "__ge__", "__getattribute__", "__getstate__",
          "__gt__", "__hash__", "__init__", "__init_subclass__", "__instancecheck__",
          "__le__", "__lt__", "__module__", "__mro__", "__name__", "__ne__",
          "__new__", "__or__", "__prepare__", "__qualname__", "__reduce__",
          "__reduce_ex__", "__repr__", "__ror__", "__setattr__", "__sizeof__",
          "__str__", "__subclasscheck__", "__subclasses__", "__subclasshook__",
          "__weakref__", "__weakrefoffset__", "mro"}

\* The decoder of the stored tag text, as written in to_dict:
\*   [t.strip('"').strip() for t in tags_str.split(',') if t.strip()]
\* applied to tags.strip('{}') when the text and the stripped text are non-empty.
DecodeTags(text) ==
    LET tags_str == Strip(text, {"{", "}"})
        kept == SelectSeq(Split(tags_str, ","), LAMBDA t : StripWs(t) /= <<>>)
    IN  IF text = <<>> \/ tags_str = <<>> THEN <<>>
        ELSE List([i \in DOMAIN kept |-> StripWs(Strip(kept[i], {"\""}))])

\* date.isoformat()
IsoFormat(d) ==
    ZeroPad(NatToStr(d[1]), 4) \o <<"-">> \o ZeroPad(NatToStr(d[2]), 2)
        \o <<"-">> \o ZeroPad(NatToStr(d[3]), 2)

\* float(x) if x else 0
FloatOrZero(x) == IF x = None \/ x[1] = 0 THEN 0 ELSE x[1]

\* SalesTransaction.to_dict
to_dict(row) ==
    [transaction_id   |-> row.transaction_id,
     date             |-> IF row.date /= None THEN Some(IsoFormat(row.date[1])) ELSE None,
     customer_id      |-> row.customer_id,
     customer_name    |-> row.customer_name,
     phone_number     |-> row.phone_number,
     gender           |-> row.gender,
     age              |-> row.age,
     customer_region  |-> row.customer_region,
     product_category |-> row.product_category,
     quantity         |-> row.quantity,
     price_per_unit   |-> FloatOrZero(row.price_per_unit),
     total_amount     |-> FloatOrZero(row.total_amount),
     discount         |-> FloatOrZero(row.discount),
     payment_method   |-> row.payment_method,
     tags             |-> IF row.tags = None THEN <<>> ELSE DecodeTags(row.tags[1])]

\* [t.to_dict() for t in transactions]
ToDicts(rows) == List([i \in DOMAIN rows |-> to_dict(rows[i])])

(***************************************************************************)
(* The store's SQL operators on nullable columns.  A comparison with NULL  *)
(* is not true, so the row is filtered out.                                *)
(***************************************************************************)
\* column IN (values)
SqlIn(col, values) == col /= None /\ \E i \in DOMAIN values : values[i] = col[1]

\* Mutant of SqlBetween: the upper bound excluded.
SqlBetweenUpperExclusive(col, lo, hi) == col /= None /\ col[1] >= lo /\ col[1] < hi

\* column >= lo AND column <= hi, on integers
SqlBetween(col, lo, hi) == col /= None /\ col[1] >= lo /\ col[1] <= hi

DateLeq(a, b) ==
    \/ a[1] < b[1]
    \/ a[1] = b[1] /\ a[2] < b[2]
    \/ a[1] = b[1] /\ a[2] = b[2] /\ a[3] <= b[3]

\* column >= d, on dates
SqlDateGe(col, d) == col /= None /\ DateLeq(d, col[1])

\* column <= d, on dates
SqlDateLe(col, d) == col /= None /\ DateLeq(col[1], d)

\* column = value, on text
SqlEq(col, value) == col /= None /\ col[1] = value

\* Mutant of SqlLowerEq: the column compared without lower().
SqlEqNoLower(col, value) == col /= None /\ col[1] = value

\* lower(column) = value
SqlLowerEq(col, value) == col /= None /\ Lower(col[1]) = value

\* text LIKE pattern: % is any run of characters, _ any one character.
RECURSIVE LikeMatch(_, _, _)
LikeMatch(text, pattern, escape) ==
    IF pattern = <<>> THEN text = <<>>
    ELSE IF Head(pattern) \in escape
         THEN \* the next pattern character stands for itself (a pattern the
              \* escape ends is an error; the patterns here end with "%")
              /\ Len(pattern) > 1
              /\ text /= <<>>
              /\ pattern[2] = Head(text)
              /\ LikeMatch(Tail(text), Tail(Tail(pattern)), escape)
    ELSE IF Head(pattern) = "%"
         THEN LikeMatch(text, Tail(pattern), escape)
              \/ (text /= <<>> /\ LikeMatch(Tail(text), pattern, escape))
    ELSE /\ text /= <<>>
         /\ (Head(pattern) = "_" \/ Head(pattern) = Head(text))
         /\ LikeMatch(Tail(text), Tail(pattern), escape)

\* column LIKE pattern, with no ESCAPE clause.  SQLite's LIKE ignores the
\* case of ASCII letters and has no escape character; PostgreSQL's keeps the
\* case and takes the backslash as the escape character.
SqlLike(col, pattern, dialect) ==
    /\ col /= None
    /\ IF dialect = "sqlite" THEN LikeMatch(Lower(col[1]), Lower(pattern), {})
       ELSE LikeMatch(col[1], pattern, {"\\"})

(***************************************************************************)
(* The filter shared (as duplicated code) by get_transactions and          *)
(* get_statistics.                                                         *)
(***************************************************************************)
\* Whether the age_ranges loop raises ValueError:
\*   start, end = map(int, age_range.split("-"))
\* for a token that contains "-".
AgeRangesRaise(age_ranges) ==
    \E i \in DOMAIN age_ranges :
        /\ Contains(age_ranges[i], "-")
        /\ LET parts == Split(age_ranges[i], "-")
           IN  Len(parts) /= 2 \/ \E k \in DOMAIN parts : ~IsIntLiteral(parts[k])

\* age_conditions: one <<start, end>> per token that contains "-".
AgeConditions(age_ranges) ==
    LET tokens == SelectSeq(age_ranges, LAMBDA t : Contains(t, "-"))
    IN  List([i \in DOMAIN tokens |->
                LET parts == Split(tokens[i], "-")
                IN  <<ParseInt(parts[1]), ParseInt(parts[2])>>])

\* The filters get_transactions adds to the query, in order.
TransactionsFilter(row, q, dialect) ==
    /\ q.customer_regions /= <<>> => SqlIn(row.customer_region, q.customer_regions)
    /\ q.genders /= <<>> => SqlIn(row.gender, q.genders)
    /\ (q.age_ranges /= <<>> /\ AgeConditions(q.age_ranges) /= <<>>) =>
            \E i \in DOMAIN AgeConditions(q.age_ranges) :
                SqlBetween(row.age, AgeConditions(q.age_ranges)[i][1],
                           AgeConditions(q.age_ranges)[i][2])
    /\ q.product_categories /= <<>> =>
            SqlIn(row.product_category, q.product_categories)
    /\ q.tags /= <<>> =>
            \E i \in DOMAIN q.tags :
                SqlLike(row.tags, <<"%">> \o q.tags[i] \o <<"%">>, dialect)
    /\ q.payment_methods /= <<>> => SqlIn(row.payment_method, q.payment_methods)
    /\ q.start_date /= None => SqlDateGe(row.date, q.start_date[1])
    /\ q.end_date /= None => SqlDateLe(row.date, q.end_date[1])
    /\ (q.search /= None /\ q.search[1] /= <<>> /\ StripWs(q.search[1]) /= <<>>) =>
            \/ SqlLowerEq(row.customer_name, Lower(StripWs(q.search[1])))
            \/ SqlEq(row.phone_number, StripWs(q.search[1]))

\* The filters get_statistics adds to the query, in order.
StatisticsFilter(row, q, dialect) ==
    /\ q.customer_regions /= <<>> => SqlIn(row.customer_region, q.customer_regions)
    /\ q.genders /= <<>> => SqlIn(row.gender, q.genders)
    /\ (q.age_ranges /= <<>> /\ AgeConditions(q.age_ranges) /= <<>>) =>
            \E i \in DOMAIN AgeConditions(q.age_ranges) :
                SqlBetween(row.age, AgeConditions(q.age_ranges)[i][1],
                           AgeConditions(q.age_ranges)[i][2])
    /\ q.product_categories /= <<>> =>
            SqlIn(row.product_category, q.product_categories)
    /\ q.tags /= <<>> =>
            \E i \in DOMAIN q.tags :
                SqlLike(row.tags, <<"%">> \o q.tags[i] \o <<"%">>, dialect)
    /\ q.payment_methods /= <<>> => SqlIn(row.payment_method, q.payment_methods)
    /\ q.start_date /= None => SqlDateGe(row.date, q.start_date[1])
    /\ q.end_date /= None => SqlDateLe(row.date, q.end_date[1])
    /\ (q.search /= None /\ q.search[1] /= <<>> /\ StripWs(q.search[1]) /= <<>>) =>
            \/ SqlLowerEq(row.customer_name, Lower(StripWs(q.search[1])))
            \/ SqlEq(row.phone_number, StripWs(q.search[1]))

(***************************************************************************)
(* ORDER BY.  The store orders NULL before every value (SQLite) or after   *)
(* every value (PostgreSQL).  SQL fixes no order among rows with equal     *)
(* keys, nor among the rows of a query without ORDER BY: the plan decides  *)
(* (a scan of the table or of one of the indexes ensure_indexes creates,   *)
(* forwards or backwards), so every such order is a possible result.       *)
(***************************************************************************)
\* The value ORDER BY column compares; the primary key is never NULL.
SortKey(row, column) ==
    IF column = "transaction_id" THEN Some(row.transaction_id) ELSE row[column]

ValueLess(a, b, column) ==
    IF column = "date" THEN a /= b /\ DateLeq(a, b)
    ELSE IF column \in {"age", "quantity", "price_per_unit", "total_amount", "discount"}
         THEN a < b
    ELSE StrLess(a, b)

\* Whether key a sorts strictly before key b in ascending order.
KeyLess(a, b, column, dialect) ==
    IF a = None /\ b = None THEN FALSE
    ELSE IF a = None THEN dialect = "sqlite"
    ELSE IF b = None THEN dialect /= "sqlite"
    ELSE ValueLess(a[1], b[1], column)

\* Whether row r must come before row s under ORDER BY column ASC|DESC.
RowBefore(r, s, column, descending, dialect) ==
    IF descending
    THEN KeyLess(SortKey(s, column), SortKey(r, column), column, dialect)
    ELSE KeyLess(SortKey(r, column), SortKey(s, column), column, dialect)

\* The least p in lo..hi+1 such that row must come before sorted[p] (hi+1 when
\* there is none), for sorted already in order.
RECURSIVE InsertionPoint(_, _, _, _, _, _, _)
InsertionPoint(sorted, row, lo, hi, column, descending, dialect) ==
    IF lo > hi THEN lo
    ELSE LET mid == (lo + hi) \div 2
         IN  IF RowBefore(row, sorted[mid], column, descending, dialect)
             THEN InsertionPoint(sorted, row, lo, mid - 1, column, descending, dialect)
             ELSE InsertionPoint(sorted, row, mid + 1, hi, column, descending, dialect)

InsertAt(sorted, row, p) ==
    SubSeq(sorted, 1, p - 1) \o <<row>> \o SubSeq(sorted, p, Len(sorted))

\* sorted with rows[lo..hi] inserted one by one, each after the rows it does
\* not precede.
RECURSIVE InsertRows(_, _, _, _, _, _, _)
InsertRows(sorted, rows, lo, hi, column, descending, dialect) ==
    IF Len(sorted) = 0 /\ lo = hi THEN <<rows[lo]>>
    ELSE IF lo > hi THEN sorted
    ELSE IF lo = hi
         THEN InsertAt(sorted, rows[lo],
                       InsertionPoint(sorted, rows[lo], 1, Len(sorted),
                                      column, descending, dialect))
    ELSE InsertRows(InsertRows(sorted, rows, lo, (lo + hi) \div 2,
                               column, descending, dialect),
                    rows, ((lo + hi) \div 2) + 1, hi, column, descending, dialect)

\* One result of ORDER BY column ASC|DESC.
OrderBy(rows, column, descending, dialect) ==
    InsertRows(<<>>, rows, 1, Len(rows), column, descending, dialect)

\* Every sequence of the rows at the given positions, each once.
RECURSIVE Arrangements(_, _)
Arrangements(rows, positions) ==
    IF positions = {} THEN {<<>>}
    ELSE UNION {{<<rows[i]>> \o rest : rest \in Arrangements(rows, positions \ {i})} :
                   i \in positions}

\* Every result of ORDER BY over sorted[lo..hi], for sorted in order: the
\* rows with equal keys in any order among themselves.
RECURSIVE Orderings(_, _, _, _, _, _)
Orderings(sorted, lo, hi, column, descending, dialect) ==
    IF lo >= hi \/ ~RowBefore(sorted[lo], sorted[hi], column, descending, dialect)
    THEN Arrangements(sorted, lo..hi)
    ELSE LET mid == (lo + hi) \div 2
             cut == IF RowBefore(sorted[mid], sorted[mid + 1], column, descending, dialect)
                    THEN mid
                    ELSE CHOOSE k \in lo..(hi - 1) :
                             RowBefore(sorted[k], sorted[k + 1], column, descending, dialect)
         IN  {head \o tail :
                 head \in Orderings(sorted, lo, cut, column, descending, dialect),
                 tail \in Orderings(sorted, cut + 1, hi, column, descending, dialect)}

(***************************************************************************)
(* GET /api/transactions                                                   *)
(***************************************************************************)
MinLimit == 10

MaxLimit == 200

\* Mutant of SafeLimit: no lower clamp.
SafeLimitNoFloor(limit) == Min(limit, MaxLimit)

\* safe_limit = max(10, min(limit, 200))
SafeLimit(limit) == Max(MinLimit, Min(limit, MaxLimit))

ServerError == [status |-> 500]

NoResponse == [status |-> 0]

\* column = getattr(SalesTransaction, sort_by, None) is truthy and has no
\* .asc()/.desc(): AttributeError.
SortRaises(sort_by) == sort_by /= "" /\ sort_by \in ClassAttributes

\* The "Sorting" block: order_by on a column, nothing for a falsy sort_by or
\* a name the class does not have.  The set of the orders the query may
\* return its rows in.
ApplySort(rows, sort_by, sort_order, dialect) ==
    IF sort_by /= "" /\ sort_by \in Columns
    THEN Orderings(OrderBy(rows, sort_by, sort_order = "desc", dialect), 1, Len(rows),
                   sort_by, sort_order = "desc", dialect)
    ELSE Arrangements(rows, DOMAIN rows)

\* OFFSET with a negative value: an error in PostgreSQL, zero in SQLite.
OffsetRaises(offset, dialect) == offset < 0 /\ dialect = "postgresql"

\* query.offset(offset).limit(safe_limit).all()
Paginate(rows, offset, safe_limit) ==
    LET skip == Max(offset, 0)
    IN  SubSeq(rows, skip + 1, Min(Len(rows), skip + safe_limit))

\* The responses that can be built from the filtered rows: the count, then
\* sort and page, one response for each order the query may return.
ListingResponse(filtered, q, dialect) ==
    IF SortRaises(q.sort_by) \/ OffsetRaises(q.offset, dialect) THEN {ServerError}
    ELSE {[status |-> 200,
           total  |-> Len(filtered),
           limit  |-> SafeLimit(q.limit),
           offset |-> q.offset,
           data   |-> ToDicts(Paginate(ordered, q.offset, SafeLimit(q.limit)))] :
             ordered \in ApplySort(filtered, q.sort_by, q.sort_order, dialect)}

\* The set of the responses get_transactions can give.
get_transactions(rows, q, dialect) ==
    IF AgeRangesRaise(q.age_ranges) THEN {ServerError}
    ELSE ListingResponse(SelectSeq(rows, LAMBDA row : TransactionsFilter(row, q, dialect)),
                         q, dialect)

(***************************************************************************)
(* GET /api/statistics                                                     *)
(***************************************************************************)
\* The sum of the non-NULL values of column over rows[lo..hi].
RECURSIVE SumRange(_, _, _, _)
SumRange(rows, column, lo, hi) ==
    IF lo > hi THEN 0
    ELSE IF lo = hi THEN (IF rows[lo][column] = None THEN 0 ELSE rows[lo][column][1])
    ELSE SumRange(rows, column, lo, (lo + hi) \div 2)
         + SumRange(rows, column, ((lo + hi) \div 2) + 1, hi)

\* func.sum(column): NULL when no row has a value, else the sum of the values.
SqlSum(rows, column) ==
    IF \A i \in DOMAIN rows : rows[i][column] = None THEN None
    ELSE Some(SumRange(rows, column, 1, Len(rows)))

\* func.count(column): the rows whose value is not NULL.
SqlCount(rows, column) == Cardinality({i \in DOMAIN rows : rows[i][column] /= None})

\* x or 0
OrZero(x) == IF x = None \/ x[1] = 0 THEN 0 ELSE x[1]

\* The aggregates over the filtered rows.
StatisticsResponse(filtered) ==
    [status             |-> 200,
     total_units        |-> OrZero(SqlSum(filtered, "quantity")),
     total_amount       |-> OrZero(SqlSum(filtered, "total_amount")),
     total_discount     |-> OrZero(SqlSum(filtered, "discount")),
     total_transactions |-> SqlCount(filtered, "transaction_id")]

get_statistics(rows, q, dialect) ==
    IF AgeRangesRaise(q.age_ranges) THEN ServerError
    ELSE StatisticsResponse(SelectSeq(rows, LAMBDA row : StatisticsFilter(row, q, dialect)))

(***************************************************************************)
(* GET /api/filters/options                                                *)
(***************************************************************************)
StrMin(S) == CHOOSE x \in S : \A y \in S : x = y \/ StrLess(x, y)

\* sorted(S) for a set of strings.
RECURSIVE Sorted(_)
Sorted(S) == IF S = {} THEN <<>> ELSE <<StrMin(S)>> \o Sorted(S \ {StrMin(S)})

\* sorted([r[0] for r in <distinct non-NULL values of column> if r[0]])
DistinctValues(rows, column) ==
    Sorted({rows[i][column][1] :
                i \in {k \in DOMAIN rows : rows[k][column] /= None
                                           /\ rows[k][column][1] /= <<>>}})

\* The tags of one stored text, as the loop over all_tags decodes it.
OptionsDecodeTags(text) ==
    LET tags_str == Strip(text, {"{", "}"})
        kept == SelectSeq(Split(tags_str, ","), LAMBDA t : StripWs(t) /= <<>>)
    IN  IF text = <<>> \/ tags_str = <<>> THEN <<>>
        ELSE List([i \in DOMAIN kept |-> StripWs(Strip(kept[i], {"\""}))])

\* unique_tags
UniqueTags(rows) ==
    UNION {Range(OptionsDecodeTags(rows[i].tags[1])) :
              i \in {k \in DOMAIN rows : /\ rows[k].tags /= None
                                         /\ rows[k].tags[1] /= <<>>
                                         /\ rows[k].tags[1] /= <<"{", "}">>}}

Ages(rows) == {rows[i].age[1] : i \in {k \in DOMAIN rows : rows[k].age /= None}}

DefaultMinAge == 0

DefaultMaxAge == 100

AgeStep == 10

\* func.min over the non-NULL values: NULL when there is none.
SqlMin(S) == IF S = {} THEN None ELSE Some(CHOOSE a \in S : \A b \in S : a <= b)

\* func.max over the non-NULL values: NULL when there is none.
SqlMax(S) == IF S = {} THEN None ELSE Some(CHOOSE a \in S : \A b \in S : a >= b)

\* x or default
OrDefault(x, default) == IF x = None \/ x[1] = 0 THEN default ELSE x[1]

\* db.query(func.min(SalesTransaction.age)).scalar() or 0
MinAge(rows) == OrDefault(SqlMin(Ages(rows)), DefaultMinAge)

\* db.query(func.max(SalesTransaction.age)).scalar() or 100
MaxAge(rows) == OrDefault(SqlMax(Ages(rows)), DefaultMaxAge)

\* [f"{start}-{start+9}" for start in range(min_age, max_age, 10)]
AgeRangeTokens(min_age, max_age) ==
    LET count == IF max_age > min_age
                 THEN (max_age - min_age + AgeStep - 1) \div AgeStep ELSE 0
    IN  List([i \in 1..count |->
                IntToStr(min_age + (i - 1) * AgeStep) \o <<"-">>
                    \o IntToStr(min_age + (i - 1) * AgeStep + 9)])

get_filter_options(rows) ==
    [status             |-> 200,
     customer_regions   |-> DistinctValues(rows, "customer_region"),
     genders            |-> DistinctValues(rows, "gender"),
     age_ranges         |-> AgeRangeTokens(MinAge(rows), MaxAge(rows)),
     product_categories |-> DistinctValues(rows, "product_category"),
     tags               |-> Sorted(UniqueTags(rows)),
     payment_methods    |-> DistinctValues(rows, "payment_method")]

(***************************************************************************)
(* Inputs: the text values, rows, stores and requests the handlers are     *)
(* applied to.                                                             *)
(***************************************************************************)
North == <<"N", "o", "r", "t", "h">>

South == <<"S", "o", "u", "t", "h">>

Male == <<"M", "a", "l", "e">>

Female == <<"F", "e", "m", "a", "l", "e">>

Tech == <<"T", "e", "c", "h">>

Clothing == <<"C", "l", "o", "t", "h", "i", "n", "g">>

Card == <<"C", "a", "r", "d">>

Cash == <<"C", "a", "s", "h">>

JohnSmith == <<"J", "o", "h", "n", " ", "S", "m", "i", "t", "h">>

JohnSmithson == <<"J", "o", "h", "n", " ", "S", "m", "i", "t", "h", "s", "o", "n">>

JOHNSMITH == <<"J", "O", "H", "N", " ", "S", "M", "I", "T", "H">>

AnnLee == <<"A", "n", "n", " ", "L", "e", "e">>

annlee == <<"a", "n", "n", " ", "l", "e", "e">>

Phone1 == <<"5", "5", "5", "1">>

Phone2 == <<"5", "5", "5", "2">>

Phone3 == <<"5", "5", "5", "3">>

PhoneJohn == <<"J", "o", "h", "n">>

Phone6 == <<"5", "5", "5", "6">>

TagElectronics == <<"e", "l", "e", "c", "t", "r", "o", "n", "i", "c", "s">>

TagHomeGoods == <<"h", "o", "m", "e", " ", "g", "o", "o", "d", "s">>

TagHome == <<"h", "o", "m", "e">>

TagHomeCap == <<"H", "o", "m", "e">>

TagSale == <<"s", "a", "l", "e">>

TagAB == <<"a", ",", "b">>

TagBackslash == <<"a", "\\", "b">>

\* The writer of the stored tag text (the table is loaded outside this code):
\* brace-delimited, comma-separated, a token quoted when it is empty or holds
\* a space, a comma, a brace or a quote.
NeedsQuote(tag) ==
    tag = <<>> \/ \E i \in DOMAIN tag : tag[i] \in {" ", ",", "{", "}", "\""}

RECURSIVE JoinTags(_)
JoinTags(tag_list) ==
    IF tag_list = <<>> THEN <<>>
    ELSE (IF NeedsQuote(Head(tag_list)) THEN <<"\"">> \o Head(tag_list) \o <<"\"">>
          ELSE Head(tag_list))
         \o (IF Len(tag_list) > 1 THEN <<",">> ELSE <<>>)
         \o JoinTags(Tail(tag_list))

EncodeTags(tag_list) == <<"{">> \o JoinTags(tag_list) \o <<"}">>

\* The tag lists whose encodings the rows store.
TagLists ==
    {<<TagElectronics, TagHomeGoods>>, <<TagHome>>, <<>>, <<TagAB>>,
     <<TagHomeCap, TagSale, TagBackslash>>, <<TagSale>>}

Pool ==
    <<[transaction_id |-> <<"T", "1">>, date |-> Some(<<2023, 1, 15>>),
       customer_id |-> Some(<<"C", "1">>), customer_name |-> Some(JohnSmith),
       phone_number |-> Some(Phone1), gender |-> Some(Male), age |-> Some(29),
       customer_region |-> Some(North), product_category |-> Some(Tech),
       quantity |-> Some(1), price_per_unit |-> Some(10), total_amount |-> Some(10),
       discount |-> Some(1), payment_method |-> Some(Card),
       tags |-> Some(EncodeTags(<<TagElectronics, TagHomeGoods>>))],
      [transaction_id |-> <<"T", "2">>, date |-> Some(<<2023, 2, 1>>),
       customer_id |-> Some(<<"C", "2">>), customer_name |-> Some(JohnSmithson),
       phone_number |-> Some(Phone2), gender |-> Some(Female), age |-> Some(30),
       customer_region |-> Some(South), product_category |-> Some(Clothing),
       quantity |-> Some(2), price_per_unit |-> Some(10), total_amount |-> Some(20),
       discount |-> None, payment_method |-> Some(Cash),
       tags |-> Some(EncodeTags(<<TagHome>>))],
      [transaction_id |-> <<"T", "3">>, date |-> None,
       customer_id |-> Some(<<"C", "1">>), customer_name |-> Some(JOHNSMITH),
       phone_number |-> Some(Phone3), gender |-> None, age |-> Some(15),
       customer_region |-> Some(North), product_category |-> None,
       quantity |-> Some(4), price_per_unit |-> None, total_amount |-> None,
       discount |-> Some(2), payment_method |-> None,
       tags |-> None],
      [transaction_id |-> <<"T", "4">>, date |-> Some(<<2023, 1, 31>>),
       customer_id |-> None, customer_name |-> None,
       phone_number |-> Some(PhoneJohn), gender |-> Some(Male), age |-> Some(0),
       customer_region |-> Some(<<>>), product_category |-> Some(Tech),
       quantity |-> None, price_per_unit |-> Some(0), total_amount |-> Some(40),
       discount |-> Some(0), payment_method |-> Some(Card),
       tags |-> Some(EncodeTags(<<>>))],
      [transaction_id |-> <<"T", "5">>, date |-> Some(<<2023, 3, 10>>),
       customer_id |-> Some(<<"C", "5">>), customer_name |-> Some(AnnLee),
       phone_number |-> None, gender |-> Some(Female), age |-> None,
       customer_region |-> None, product_category |-> Some(Clothing),
       quantity |-> Some(8), price_per_unit |-> Some(10), total_amount |-> Some(80),
       discount |-> Some(8), payment_method |-> Some(Cash),
       tags |-> Some(EncodeTags(<<TagAB>>))],
      [transaction_id |-> <<"T", "6">>, date |-> Some(<<2023, 2, 1>>),
       customer_id |-> Some(<<"C", "6">>), customer_name |-> Some(annlee),
       phone_number |-> Some(Phone6), gender |-> Some(Female), age |-> Some(5),
       customer_region |-> Some(South), product_category |-> Some(Tech),
       quantity |-> Some(16), price_per_unit |-> Some(10), total_amount |-> Some(160),
       discount |-> Some(16), payment_method |-> Some(Card),
       tags |-> Some(EncodeTags(<<TagHomeCap, TagSale, TagBackslash>>))]>>

\* Most rows of a store drawn from the pool (the whole pool is a store too).
MaxStoreRows == 2

\* Rows of the large generated store, above MaxLimit, and of the middle one,
\* between MinLimit and MaxLimit.
BulkRows == 205

MidRows == 12

RECURSIVE SetToSeq(_)
SetToSeq(S) ==
    IF S = {} THEN <<>>
    ELSE LET m == CHOOSE x \in S : \A y \in S : x <= y
         IN  <<m>> \o SetToSeq(S \ {m})

\* The rows of the pool at the given positions, in pool order.
PoolStore(positions) ==
    List([i \in 1..Cardinality(positions) |-> Pool[SetToSeq(positions)[i]]])

SmallStores ==
    {PoolStore(P) : P \in {Q \in SUBSET DOMAIN Pool : Cardinality(Q) <= MaxStoreRows}}
        \cup {Pool}

BulkRow(i) ==
    [transaction_id |-> <<"B">> \o NatToStr(i),
     date |-> Some(<<2023, 1 + (i % 12), 1 + (i % 28)>>),
     customer_id |-> Some(<<"C">> \o NatToStr(i % 40)),
     customer_name |-> Some(<<UpperCase[1 + (i % 26)], LowerCase[1 + ((i \div 26) % 26)]>>),
     phone_number |-> None,
     gender |-> Some(IF i % 2 = 0 THEN Male ELSE Female),
     age |-> Some(18 + (i % 50)),
     customer_region |-> Some(IF i % 3 = 0 THEN North ELSE South),
     product_category |-> Some(Tech),
     quantity |-> Some(1 + (i % 4)),
     price_per_unit |-> Some(5),
     total_amount |-> Some(5 * (1 + (i % 4))),
     discount |-> Some(i % 3),
     payment_method |-> Some(IF i % 5 = 0 THEN Cash ELSE Card),
     tags |-> Some(EncodeTags(<<TagSale>>))]

BulkStore(n) == List([i \in 1..n |-> BulkRow(i)])


Dialects == {"sqlite", "postgresql"}

\* A request with FastAPI's defaults for every parameter.
DefaultRequest ==
    [customer_regions |-> <<>>, genders |-> <<>>, age_ranges |-> <<>>,
     product_categories |-> <<>>, tags |-> <<>>, payment_methods |-> <<>>,
     start_date |-> None, end_date |-> None, search |-> None,
     sort_by |-> "customer_name", sort_order |-> "asc", limit |-> 50, offset |-> 0]

SetRequests ==
    {[DefaultRequest EXCEPT !.customer_regions = r, !.genders = g,
                            !.product_categories = c, !.payment_methods = p] :
        r \in {<<>>, <<North>>, <<North, South>>},
        g \in {<<>>, <<Female>>},
        c \in {<<>>, <<Tech>>},
        p \in {<<>>, <<Card>>, <<Cash, Card>>}}

Age0to9 == <<"0", "-", "9">>

Age20to29 == <<"2", "0", "-", "2", "9">>

Age30to39 == <<"3", "0", "-", "3", "9">>

\* Tokens that are not two integers joined by one "-": no separator, not
\* integers, two separators, an empty bound.
AgeNoSeparator == <<"2", "0", "2", "9">>

AgeWord == <<"a", "b", "c">>

AgeLetters == <<"a", "-", "b">>

AgeThreeParts == <<"1", "-", "2", "-", "3">>

AgeOpenEnd == <<"2", "0", "-">>

WellFormedAgeSelections ==
    {<<>>, <<Age20to29>>, <<Age30to39>>, <<Age0to9, Age20to29>>,
     <<<<"2", "9", "-", "2", "0">>>>}

MalformedAgeSelections ==
    {<<AgeNoSeparator>>, <<Age20to29, AgeWord>>, <<AgeLetters>>, <<AgeThreeParts>>,
     <<AgeOpenEnd>>, <<Age0to9, AgeLetters>>}

AgeRequests ==
    {[DefaultRequest EXCEPT !.age_ranges = a, !.customer_regions = r] :
        a \in WellFormedAgeSelections \cup MalformedAgeSelections,
        r \in {<<>>, <<North>>}}

DateRequests ==
    {[DefaultRequest EXCEPT !.start_date = s, !.end_date = e, !.genders = g] :
        s \in {None, Some(<<2023, 1, 15>>), Some(<<2023, 2, 1>>)},
        e \in {None, Some(<<2023, 1, 31>>), Some(<<2023, 2, 1>>)},
        g \in {<<>>, <<Female>>}}

TagSelections ==
    {<<TagHome>>, <<TagHomeGoods>>, <<TagElectronics>>, <<TagAB>>, <<TagSale>>,
     <<TagBackslash>>,
     <<TagHomeCap>>, <<<<"a">>>>, <<<<"b">>, <<"z">>>>, <<<<"h", "_", "m", "e">>>>,
     <<<<>>>>, <<<<"z">>>>}

TagRequests ==
    {[DefaultRequest EXCEPT !.tags = t, !.customer_regions = r] :
        t \in TagSelections, r \in {<<>>, <<South>>}}

Searches ==
    {None, Some(<<>>), Some(<<" ", " ">>), Some(Lower(JohnSmith)),
     Some(<<" ">> \o JohnSmith \o <<" ">>), Some(JohnSmithson),
     Some(<<"j", "o", "h", "n">>), Some(PhoneJohn), Some(Phone2),
     Some(<<" ">> \o Phone3), Some(annlee)}

SearchRequests ==
    {[DefaultRequest EXCEPT !.search = s, !.genders = g] :
        s \in Searches, g \in {<<>>, <<Female>>}}

SortRequests ==
    {[DefaultRequest EXCEPT !.sort_by = b, !.sort_order = o, !.age_ranges = a] :
        b \in {"customer_name", "age", "date", "quantity", "transaction_id",
               "to_dict", "metadata", "__init__", "__name__"},
        o \in {"asc", "desc", "up"},
        a \in {<<>>, <<Age0to9, Age20to29>>}}
    \cup {[DefaultRequest EXCEPT !.sort_by = b[1], !.sort_order = b[2], !.age_ranges = a] :
             b \in {<<"", "asc">>, <<"nonexistent", "desc">>},
             a \in {<<>>, <<Age0to9, Age20to29>>}}

PageRequests ==
    {[DefaultRequest EXCEPT !.limit = l, !.offset = o] :
        l \in {-5, 0, 5, 9, 10, 11, 50, 200, 201, 1000},
        o \in {-1, 0, 3, 10, 200, 300}}

\* The page requests put to the stores drawn from the pool.
SmallPageRequests ==
    {[DefaultRequest EXCEPT !.limit = l, !.offset = o] :
        l \in {-5, 10, 1000},
        o \in {-1, 0, 3, 10}}

\* The page requests put to the large store.
BulkPageRequests ==
    {[DefaultRequest EXCEPT !.limit = l, !.offset = o] :
        l \in {-5, 5, 200, 201, 1000},
        o \in {0, 3, 200, 300}}

Requests ==
    SetRequests \cup AgeRequests \cup DateRequests \cup TagRequests
        \cup SearchRequests \cup SortRequests \cup SmallPageRequests

(***************************************************************************)
(* The system: a store, a request, and the three handlers answering it.    *)
(* No handler writes the store; each call is independent of the others.    *)
(***************************************************************************)
Init ==
    /\ engine \in Dialects
    /\ \/ store \in SmallStores /\ req \in Requests
       \/ store = BulkStore(MidRows) /\ req \in PageRequests
       \/ store = BulkStore(BulkRows) /\ req \in BulkPageRequests
    /\ listing = NoResponse
    /\ statistics = NoResponse
    /\ options = NoResponse

GetTransactions ==
    /\ listing = NoResponse
    /\ listing' \in get_transactions(store, req, engine)
    /\ UNCHANGED <<engine, store, req, statistics, options>>

GetStatistics ==
    /\ statistics = NoResponse
    /\ statistics' = get_statistics(store, req, engine)
    /\ UNCHANGED <<engine, store, req, listing, options>>

GetFilterOptions ==
    /\ options = NoResponse
    /\ options' = get_filter_options(store)
    /\ UNCHANGED <<engine, store, req, listing, statistics>>

Next == GetTransactions \/ GetStatistics \/ GetFilterOptions

Spec == Init /\ [][Next]_vars

(***************************************************************************)
(* Properties.  The reference definitions below restate the behaviour the  *)
(* specification describes, without using the handlers' filter code.       *)
(***************************************************************************)
Ids(records) == {records[i].transaction_id : i \in DOMAIN records}

\* A token that is two non-negative integers joined by a single "-".
RefWellFormedToken(t) ==
    \E p \in 2..(Len(t) - 1) :
        /\ t[p] = "-"
        /\ \A i \in DOMAIN t : i /= p => t[i] \in Range(Digits)

\* The two integers of a well-formed token.
RefTokenBounds(t) ==
    LET p == CHOOSE k \in DOMAIN t : t[k] = "-"
    IN  <<DigitsValue(SubSeq(t, 1, p - 1), 0), DigitsValue(SubSeq(t, p + 1, Len(t)), 0)>>

\* Inputs the handler is specified on: well-formed age tokens, a sort field
\* that is a sortable column or none, a non-negative offset.
WellFormedRequest(q) ==
    /\ \A i \in DOMAIN q.age_ranges : RefWellFormedToken(q.age_ranges[i])
    /\ q.sort_by \in Columns \cup {""}
    /\ q.offset >= 0

\* A set dimension: no constraint when nothing is selected, else the row's
\* value is one of the selected values.
RefInSelection(value, selection) ==
    selection = <<>> \/ (value /= None /\ value[1] \in Range(selection))

RefAgeInRanges(age, tokens) ==
    tokens = <<>>
    \/ /\ age /= None
       /\ \E i \in DOMAIN tokens :
              /\ RefTokenBounds(tokens[i])[1] <= age[1]
              /\ age[1] <= RefTokenBounds(tokens[i])[2]

RefDayNumber(d) == d[1] * 10000 + d[2] * 100 + d[3]

RefDateInBounds(date, start_date, end_date) ==
    /\ start_date /= None =>
            date /= None /\ RefDayNumber(date[1]) >= RefDayNumber(start_date[1])
    /\ end_date /= None =>
            date /= None /\ RefDayNumber(date[1]) <= RefDayNumber(end_date[1])

\* The row satisfies every set, age and date dimension of q that has a selection.
RefSatisfies(row, q) ==
    /\ RefInSelection(row.customer_region, q.customer_regions)
    /\ RefInSelection(row.gender, q.genders)
    /\ RefInSelection(row.product_category, q.product_categories)
    /\ RefInSelection(row.payment_method, q.payment_methods)
    /\ RefAgeInRanges(row.age, q.age_ranges)
    /\ RefDateInBounds(row.date, q.start_date, q.end_date)

RefSatisfying(rows, q) == {i \in DOMAIN rows : RefSatisfies(rows[i], q)}

\* C2: for a request with well-formed inputs (and no tag or search selection,
\* whose matching C7 and C9 state), get_transactions succeeds, its total is the
\* number of rows that satisfy every set, age (inclusive bounds) and date
\* (inclusive, independently optional) dimension with a selection, and the
\* first page, when it holds them all, lists exactly those rows; with no
\* selection at all that is every row of the store.
C2_TotalCountsSatisfyingRows ==
    (listing /= NoResponse /\ WellFormedRequest(req)
        /\ req.tags = <<>> /\ req.search = None) =>
        /\ listing.status = 200
        /\ listing.total = Cardinality(RefSatisfying(store, req))
        /\ (req.offset = 0 /\ listing.total <= listing.limit) =>
               Ids(listing.data)
                   = {store[i].transaction_id : i \in RefSatisfying(store, req)}

\* C2 witness: regions and an age range selected over the whole pool; only the
\* row aged 29 in North is counted (the North row aged 15 and the South row
\* aged 30 are not).
C2_Witness ==
    /\ store = Pool
    /\ req.customer_regions = <<North>>
    /\ req.age_ranges = <<Age20to29>>
    /\ listing.status = 200
    /\ listing.total = 1
    /\ Ids(listing.data) = {<<"T", "1">>}

\* The page size the specification asks for: the limit brought into [10, 200].
RefClamp(limit) == IF limit < 10 THEN 10 ELSE IF limit > 200 THEN 200 ELSE limit

\* C3: whatever integer limit a request with otherwise well-formed inputs
\* carries (below 10, above 200, zero, negative), it is answered, the returned
\* limit is the limit clamped into [10, 200], and for an offset >= 0 the page
\* holds min(returned limit, max(0, total - offset)) records.
C3_LimitClampedNotRejected ==
    (listing /= NoResponse /\ WellFormedRequest(req)) =>
        /\ listing.status = 200
        /\ listing.limit = RefClamp(req.limit)
        /\ Len(listing.data)
               = (IF listing.total - req.offset <= 0 THEN 0
                  ELSE IF listing.total - req.offset < RefClamp(req.limit)
                       THEN listing.total - req.offset
                  ELSE RefClamp(req.limit))

\* C3 witness: limit=1000 against more than 200 matching rows returns 200
\* records.
C3_Witness ==
    /\ req.limit = 1000
    /\ req.offset = 0
    /\ listing.status = 200
    /\ listing.total > 200
    /\ listing.limit = 200
    /\ Len(listing.data) = 200

\* limit=5 against at least 10 matching rows returns exactly 10 records.
SmallLimitReturnsTen ==
    (listing.status = 200 /\ req.limit = 5 /\ req.offset = 0 /\ listing.total >= 10) =>
        Len(listing.data) = 10

\* C1: for every store and filter selection, whatever sort_by, sort_order,
\* limit and offset the listing request carries, both handlers answer and the
\* total_transactions of get_statistics equals the total of get_transactions.
C1_StatisticsTotalEqualsListingTotal ==
    (listing /= NoResponse /\ statistics /= NoResponse) =>
        /\ listing.status = 200
        /\ statistics.status = 200
        /\ statistics.total_transactions = listing.total

\* Whenever both handlers answer the same request with success, the totals agree.
TotalsAgreeWhenBothSucceed ==
    (listing.status = 200 /\ statistics.status = 200) =>
        statistics.total_transactions = listing.total

\* The request with the malformed age-range tokens removed.
WithoutMalformedTokens(q) ==
    [q EXCEPT !.age_ranges = SelectSeq(@, RefWellFormedToken)]

\* The rows of the store that match the filter selection, a malformed age
\* token being ignored.
RefMatching(rows, q, dialect) ==
    SelectSeq(rows, LAMBDA row : TransactionsFilter(row, WithoutMalformedTokens(q), dialect))

\* The response is a success that lists a page of the given rows, in some
\* order, and counts them all.
ListsRows(response, rows) ==
    /\ response.status = 200
    /\ response.total = Len(rows)
    /\ Ids(response.data) \subseteq Ids(rows)
    /\ Cardinality(Ids(response.data)) = Len(response.data)
    /\ Len(response.data)
           = Min(response.limit, Max(0, Len(rows) - Max(0, response.offset)))

\* C4: a request holding age-range tokens that are not two integers joined by
\* one "-" is answered with success, by both handlers, as the same request
\* without those tokens is.
C4_MalformedAgeTokensIgnored ==
    (\E i \in DOMAIN req.age_ranges : ~RefWellFormedToken(req.age_ranges[i])) =>
        /\ listing /= NoResponse =>
               ListsRows(listing, RefMatching(store, req, engine))
        /\ statistics /= NoResponse =>
               /\ statistics.status = 200
               /\ statistics = get_statistics(store, WithoutMalformedTokens(req), engine)

\* A token without a separator is ignored: the answers are those of the
\* request without it (the listing's, for a sort_by and an offset that are
\* accepted).
TokensWithoutSeparatorIgnored ==
    (\A i \in DOMAIN req.age_ranges :
        RefWellFormedToken(req.age_ranges[i]) \/ ~Contains(req.age_ranges[i], "-")) =>
        /\ (listing /= NoResponse /\ req.sort_by \notin ClassAttributes /\ req.offset >= 0) =>
               ListsRows(listing, RefMatching(store, req, engine))
        /\ statistics /= NoResponse =>
               /\ statistics.status = 200
               /\ statistics = get_statistics(store, WithoutMalformedTokens(req), engine)

\* C5: a sort_by that is not a sortable column (the name of another attribute
\* of the model class included) is ignored: the request succeeds with the
\* total and the rows it has without sorting.
C5_UnrecognizedSortIgnored ==
    (listing /= NoResponse /\ req.sort_by \notin Columns) =>
        ListsRows(listing, RefMatching(store, req, engine))

\* A sort_by the model class has no attribute for is ignored.
UnknownSortNameIgnored ==
    (listing /= NoResponse /\ req.sort_by \notin Columns \cup ClassAttributes) =>
        ListsRows(listing, RefMatching(store, req, engine))

RECURSIVE RefTotal(_, _)
RefTotal(rows, column) ==
    IF rows = <<>> THEN 0
    ELSE (IF Head(rows)[column] = None THEN 0 ELSE Head(rows)[column][1])
         + RefTotal(Tail(rows), column)

\* C6: for every store and filter selection get_statistics answers with the
\* sums of quantity, total_amount and discount over exactly the matching rows
\* (a NULL adding nothing) and with their number; all four are 0 when no row
\* matches, and the answer is never an error.
C6_StatisticsSumMatchingRows ==
    statistics /= NoResponse =>
        /\ statistics.status = 200
        /\ statistics.total_units = RefTotal(RefMatching(store, req, engine), "quantity")
        /\ statistics.total_amount
               = RefTotal(RefMatching(store, req, engine), "total_amount")
        /\ statistics.total_discount
               = RefTotal(RefMatching(store, req, engine), "discount")
        /\ statistics.total_transactions = Len(RefMatching(store, req, engine))

\* When get_statistics answers with success, the four values are those sums.
StatisticsSumWhenAnswered ==
    statistics.status = 200 =>
        /\ statistics.total_units = RefTotal(RefMatching(store, req, engine), "quantity")
        /\ statistics.total_amount
               = RefTotal(RefMatching(store, req, engine), "total_amount")
        /\ statistics.total_discount
               = RefTotal(RefMatching(store, req, engine), "discount")
        /\ statistics.total_transactions = Len(RefMatching(store, req, engine))

\* The row's decoded tag list, as to_dict produces it, holds a requested tag.
RefHasRequestedTag(row, tags) ==
    \E k \in DOMAIN tags : tags[k] \in Range(to_dict(row).tags)

\* C7: a row whose decoded tag list (as to_dict produces it) holds one of the
\* requested tags satisfies the tag dimension in both handlers: if the row
\* passes the other dimensions of the request, get_transactions lists it and
\* get_statistics counts it.
C7_NoFalseNegativeTags ==
    /\ (listing.status = 200 /\ req.offset = 0 /\ listing.total <= listing.limit) =>
           \A i \in DOMAIN store :
               (/\ RefHasRequestedTag(store[i], req.tags)
                /\ TransactionsFilter(store[i], [req EXCEPT !.tags = <<>>], engine))
               => store[i].transaction_id \in Ids(listing.data)
    /\ statistics.status = 200 =>
           statistics.total_transactions
               >= Cardinality({i \in DOMAIN store :
                                  /\ RefHasRequestedTag(store[i], req.tags)
                                  /\ StatisticsFilter(store[i], [req EXCEPT !.tags = <<>>],
                                                      engine)})

\* No tag that is a member is missed on SQLite, nor on PostgreSQL when no
\* requested tag holds a backslash.
TagMembersFoundWithoutEscape ==
    (engine = "sqlite" \/ \A k \in DOMAIN req.tags : ~Contains(req.tags[k], "\\")) =>
        C7_NoFalseNegativeTags

\* The tag lists whose encoding some row of the store holds.
RefStoredTagLists(rows) ==
    {L \in TagLists : \E i \in DOMAIN rows : rows[i].tags = Some(EncodeTags(L))}

\* C8: decoding the stored encoding of a tag list yields the list: to_dict
\* returns it for the row, and get_filter_options returns the tags of the
\* stored lists and no others.
C8_TagDecodingRoundTrips ==
    /\ listing.status = 200 =>
           \A L \in TagLists : \A i \in DOMAIN store : \A k \in DOMAIN listing.data :
               (/\ store[i].tags = Some(EncodeTags(L))
                /\ listing.data[k].transaction_id = store[i].transaction_id)
               => listing.data[k].tags = L
    /\ options.status = 200 =>
           Range(options.tags) = UNION {Range(L) : L \in RefStoredTagLists(store)}

\* The round trip holds for the lists none of whose tags holds a comma.
TagListsWithoutCommaRoundTrip ==
    /\ listing.status = 200 =>
           \A L \in TagLists : \A i \in DOMAIN store : \A k \in DOMAIN listing.data :
               (/\ \A t \in Range(L) : ~Contains(t, ",")
                /\ store[i].tags = Some(EncodeTags(L))
                /\ listing.data[k].transaction_id = store[i].transaction_id)
               => listing.data[k].tags = L
    /\ (options.status = 200
            /\ \A L \in RefStoredTagLists(store) : \A t \in Range(L) : ~Contains(t, ",")) =>
           Range(options.tags) = UNION {Range(L) : L \in RefStoredTagLists(store)}

\* s without its leading and trailing spaces.
RefTrim(s) ==
    LET inked == {i \in DOMAIN s : s[i] /= " "}
    IN  IF inked = {} THEN <<>>
        ELSE SubSeq(s, CHOOSE i \in inked : \A j \in inked : i <= j,
                       CHOOSE i \in inked : \A j \in inked : i >= j)

\* 0 for a character that is not a letter, else the letter's place in the alphabet.
RefLetter(c) ==
    IF c \in Range(UpperCase) THEN IndexIn(UpperCase, c)
    ELSE IF c \in Range(LowerCase) THEN IndexIn(LowerCase, c)
    ELSE 0

RefEqualIgnoringCase(a, b) ==
    /\ Len(a) = Len(b)
    /\ \A i \in DOMAIN a :
           a[i] = b[i] \/ (RefLetter(a[i]) > 0 /\ RefLetter(a[i]) = RefLetter(b[i]))

\* The search clause of the specification: no constraint for an absent, empty
\* or blank string; else the name equals the trimmed string ignoring case, or
\* the phone number equals it exactly.
RefSearchMatches(row, search) ==
    IF search = None THEN TRUE
    ELSE IF RefTrim(search[1]) = <<>> THEN TRUE
    ELSE \/ /\ row.customer_name /= None
            /\ RefEqualIgnoringCase(row.customer_name[1], RefTrim(search[1]))
         \/ /\ row.phone_number /= None
            /\ row.phone_number[1] = RefTrim(search[1])

RefObservedAges(rows) == {rows[i].age[1] : i \in {k \in DOMAIN rows : rows[k].age /= None}}

\* The tokens "start-(start+9)" for start = lo, lo+10, ... while start < hi.
RECURSIVE RefAgeRangeList(_, _)
RefAgeRangeList(lo, hi) ==
    IF lo < hi
    THEN <<IntToStr(lo) \o <<"-">> \o IntToStr(lo + 9)>> \o RefAgeRangeList(lo + 10, hi)
    ELSE <<>>

\* C10: age_ranges is the list of 10-year tokens from the minimum observed age
\* up to (not including) the maximum observed age; 0 and 100 stand for them
\* only when the store is empty.  (Nothing is required of a store none of
\* whose rows has an age.)
C10_AgeRangesSpanObservedAges ==
    options /= NoResponse =>
        /\ options.status = 200
        /\ store = <<>> => options.age_ranges = RefAgeRangeList(0, 100)
        /\ RefObservedAges(store) /= {} =>
               options.age_ranges
                   = RefAgeRangeList(
                         CHOOSE a \in RefObservedAges(store) :
                             \A b \in RefObservedAges(store) : a <= b,
                         CHOOSE a \in RefObservedAges(store) :
                             \A b \in RefObservedAges(store) : a >= b)

\* The list is that one whenever the store is empty or its maximum age is not 0.
AgeRangesWhenMaxAgePositive ==
    options /= NoResponse =>
        /\ options.status = 200
        /\ store = <<>> => options.age_ranges = RefAgeRangeList(0, 100)
        /\ (RefObservedAges(store) /= {} /\ RefObservedAges(store) /= {0}) =>
               options.age_ranges
                   = RefAgeRangeList(
                         CHOOSE a \in RefObservedAges(store) :
                             \A b \in RefObservedAges(store) : a <= b,
                         CHOOSE a \in RefObservedAges(store) :
                             \A b \in RefObservedAges(store) : a >= b)

=============================================================================
